---- MODULE Spec2Model ----
(***************************************************************************)
(* A model of the dbpsql data-access layer (package postgres):             *)
(*   - PostgresUnitOfWork.Do / GetQueryer   (specification SpecUoW)        *)
(*   - InitDB's bounded connect retry loop   (specification SpecInitDB)    *)
(*   - the query helper functions            (specification SpecQuery)     *)
(***************************************************************************)
EXTENDS Integers, Sequences, FiniteSets, TLC

\* ------------------------------------------------------------------ bounds
\* transactions the pool is asked to begin in one behaviour
MaxTx == 2

\* goroutines that call Do on the one shared *PostgresUnitOfWork
Callers == {"g1", "g2"}
TxIds == 1..MaxTx
\* the nil *sqlx.Tx
NoTx == 0

VARIABLES
    \* ---- PostgresUnitOfWork and the database behind it
    uowTx,      \* the field uow.tx (NoTx is nil)
    txState,    \* each transaction of the pool: unused / active / committed / rolledback
    txLog,      \* the callers whose fn ran a statement through the transaction
    visible,    \* effects other readers of the database see: <<tx, caller>>
    pc,         \* where each caller is in Do
    tx,         \* Do's local variable tx
    fnRes,      \* what fn did: returned nil, returned an error, panicked
    ret,        \* what Do gave its caller
    lastQ,      \* the Queryer the caller last got from GetQueryer
    \* ---- InitDB
    initPc,     \* "loop" (line 96), "sleep" (line 109), "done"
    i,          \* the loop counter
    err,        \* InitDB's local err: the last connectDB failure, Nil for none
    attempts,   \* connectDB calls made
    sleeps,     \* time.Sleep(RetryInterval) calls made
    poolSet,    \* the pool limits were configured (lines 100-102)
    initRet,    \* what InitDB returned
    \* ---- the query helpers
    table,      \* the ids of the rows of public.test_table
    qOp,        \* the helper called last
    qIn,        \* its template, the driver fault injected, the table before
    qOut        \* what it gave back: ids, flag, err, panic

uowVars == <<uowTx, txState, txLog, visible, pc, tx, fnRes, ret, lastQ>>
initVars == <<initPc, i, err, attempts, sleeps, poolSet, initRet>>

qVars == <<table, qOp, qIn, qOut>>

vars == <<uowVars, initVars, qVars>>

\* ------------------------------------------------------------ Unit of Work
FnErrors == {"errA", "errB"}
PanicVals == {"p1", "p2"}

None == [kind |-> "none", val |-> "-"]
RetNil == [kind |-> "nil", val |-> "-"]
RetErr(e) == [kind |-> "err", val |-> e]
Panic(p) == [kind |-> "panic", val |-> p]

FnOutcomes == {RetNil} \cup {RetErr(e) : e \in FnErrors} \cup {Panic(p) : p \in PanicVals}

NoQueryer == [kind |-> "none", id |-> NoTx]
DbQueryer == [kind |-> "db", id |-> NoTx]
TxQueryer(t) == [kind |-> "tx", id |-> t]

\* func (uow *PostgresUnitOfWork) GetQueryer() Queryer
GetQueryer(utx) == IF utx # NoTx THEN TxQueryer(utx) ELSE DbQueryer

\* a deferred function that commits whenever fn did not panic
DeferBranch_CommitOnError(p, fnErr) ==
    IF p # "-" THEN "rollback_repanic" ELSE "commit"

\* the branch the deferred function of Do takes: p is recover()'s value
\* ("-" for nil), fnErr the named result err
DeferBranch(p, fnErr) ==
    IF p # "-" THEN "rollback_repanic"
    ELSE IF fnErr # "-" THEN "rollback"
    ELSE "commit"

\* a commit branch that drops tx.Commit()'s error
CommitResult_Dropped(commitErr) == RetNil

\* err = tx.Commit(): the named result after the commit branch
CommitResult(commitErr) == IF commitErr = "-" THEN RetNil ELSE RetErr(commitErr)

\* a deferred function that recovers and does not panic again
RePanicValue_Swallowed(p) == RetNil

\* panic(p) in the deferred function
RePanicValue(p) == Panic(p)

ActiveTxs == {t \in TxIds : txState[t] = "active"}
UnusedTxs == {t \in TxIds : txState[t] = "unused"}
FreshTx == CHOOSE t \in UnusedTxs : \A u \in UnusedTxs : t <= u

\* a statement run through Queryer q by caller c
RunThrough(q, c) ==
    /\ txLog' = IF q.kind = "tx" /\ txState[q.id] = "active"
                THEN [txLog EXCEPT ![q.id] = @ \cup {c}]
                ELSE txLog
    /\ visible' = IF q.kind = "db" THEN visible \cup {<<NoTx, c>>} ELSE visible

UoWInit ==
    /\ uowTx = NoTx
    /\ txState = [t \in TxIds |-> "unused"]
    /\ txLog = [t \in TxIds |-> {}]
    /\ visible = {}
    /\ pc = [c \in Callers |-> "idle"]
    /\ tx = [c \in Callers |-> NoTx]
    /\ fnRes = [c \in Callers |-> None]
    /\ ret = [c \in Callers |-> None]
    /\ lastQ = [c \in Callers |-> NoQueryer]

\* Do, lines 62-66: BeginTxx succeeds, uow.tx = tx, the defer is registered
DoBegin(c) ==
    /\ pc[c] = "idle"
    /\ UnusedTxs # {}
    /\ LET t == FreshTx IN
        /\ txState' = [txState EXCEPT ![t] = "active"]
        /\ tx' = [tx EXCEPT ![c] = t]
        /\ uowTx' = t
    /\ pc' = [pc EXCEPT ![c] = "fn"]
    /\ lastQ' = [lastQ EXCEPT ![c] = NoQueryer]
    /\ UNCHANGED <<txLog, visible, fnRes, ret>>
    /\ UNCHANGED <<initVars, qVars>>

\* Do, lines 62-65: BeginTxx fails, Do returns the error
DoBeginFails(c) ==
    /\ pc[c] = "idle"
    /\ pc' = [pc EXCEPT ![c] = "returned"]
    /\ ret' = [ret EXCEPT ![c] = RetErr("beginErr")]
    /\ lastQ' = [lastQ EXCEPT ![c] = NoQueryer]
    /\ UNCHANGED <<uowTx, txState, txLog, visible, tx, fnRes>>
    /\ UNCHANGED <<initVars, qVars>>

\* fn(uow) runs a statement through uow.GetQueryer()
FnExec(c) ==
    /\ pc[c] = "fn"
    /\ LET q == GetQueryer(uowTx) IN
        /\ lastQ' = [lastQ EXCEPT ![c] = q]
        /\ RunThrough(q, c)
    /\ UNCHANGED <<uowTx, txState, pc, tx, fnRes, ret>>
    /\ UNCHANGED <<initVars, qVars>>

\* Do, line 79: fn returns nil or an error, or panics
FnEnds(c) ==
    /\ pc[c] = "fn"
    /\ \E r \in FnOutcomes : fnRes' = [fnRes EXCEPT ![c] = r]
    /\ pc' = [pc EXCEPT ![c] = "deferred"]
    /\ UNCHANGED <<uowTx, txState, txLog, visible, tx, ret, lastQ>>
    /\ UNCHANGED <<initVars, qVars>>

\* Do, lines 68-77: the deferred function
Deferred(c) ==
    /\ pc[c] = "deferred"
    /\ LET p == IF fnRes[c].kind = "panic" THEN fnRes[c].val ELSE "-"
           fnErr == IF fnRes[c].kind = "err" THEN fnRes[c].val ELSE "-"
           branch == DeferBranch(p, fnErr)
           t == tx[c]
       IN
        \/ /\ branch = "rollback_repanic"
           /\ txState' = [txState EXCEPT ![t] = "rolledback"]
           /\ pc' = [pc EXCEPT ![c] = "repanic"]
           /\ UNCHANGED <<visible, ret>>
        \/ /\ branch = "rollback"
           /\ txState' = [txState EXCEPT ![t] = "rolledback"]
           /\ pc' = [pc EXCEPT ![c] = "returned"]
           /\ ret' = [ret EXCEPT ![c] = fnRes[c]]
           /\ UNCHANGED visible
        \/ /\ branch = "commit"
           /\ \E commitErr \in {"-", "commitErr"} :
                /\ txState' = [txState EXCEPT ![t] =
                        IF commitErr = "-" THEN "committed" ELSE "rolledback"]
                /\ visible' = IF commitErr = "-"
                              THEN visible \cup {<<t, w>> : w \in txLog[t]}
                              ELSE visible
                /\ ret' = [ret EXCEPT ![c] = CommitResult(commitErr)]
           /\ pc' = [pc EXCEPT ![c] = "returned"]
    /\ UNCHANGED <<uowTx, txLog, tx, fnRes, lastQ>>
    /\ UNCHANGED <<initVars, qVars>>

\* Do, line 71: panic(p) after the rollback
RePanic(c) ==
    /\ pc[c] = "repanic"
    /\ ret' = [ret EXCEPT ![c] = RePanicValue(fnRes[c].val)]
    /\ pc' = [pc EXCEPT ![c] = "returned"]
    /\ UNCHANGED <<uowTx, txState, txLog, visible, tx, fnRes, lastQ>>
    /\ UNCHANGED <<initVars, qVars>>

\* a helper run outside Do through uow.GetQueryer()
Standalone(c) ==
    /\ pc[c] \in {"idle", "returned"}
    /\ LET q == GetQueryer(uowTx) IN
        /\ lastQ' = [lastQ EXCEPT ![c] = q]
        /\ RunThrough(q, c)
    /\ UNCHANGED <<uowTx, txState, pc, tx, fnRes, ret>>
    /\ UNCHANGED <<initVars, qVars>>

\* the caller goes on to its next Do
DoAgain(c) ==
    /\ pc[c] = "returned"
    /\ pc' = [pc EXCEPT ![c] = "idle"]
    /\ tx' = [tx EXCEPT ![c] = NoTx]
    /\ fnRes' = [fnRes EXCEPT ![c] = None]
    /\ ret' = [ret EXCEPT ![c] = None]
    /\ lastQ' = [lastQ EXCEPT ![c] = NoQueryer]
    /\ UNCHANGED <<uowTx, txState, txLog, visible>>
    /\ UNCHANGED <<initVars, qVars>>

UoWNext ==
    \/ \E c \in Callers : DoBegin(c)
    \/ \E c \in Callers : DoBeginFails(c)
    \/ \E c \in Callers : FnExec(c)
    \/ \E c \in Callers : FnEnds(c)
    \/ \E c \in Callers : Deferred(c)
    \/ \E c \in Callers : RePanic(c)
    \/ \E c \in Callers : Standalone(c)
    \/ \E c \in Callers : DoAgain(c)

\* ------------------------------------------------------------------ InitDB
\* MaxRetries defines the maximum number of connection retries
MaxRetries == 50

Nil == <<>>

\* errors are chains, outermost first: fmt.Errorf("...: %w", e) puts a layer
\* around e's chain
Wrap(layer, e) == <<layer>> \o e

\* errors.Is(e, target)
Is(e, target) == \E k \in DOMAIN e : e[k] = target

\* a layer fmt.Errorf puts around a connection failure
Layer(msg) == [drv |-> msg, attempt |-> 0]

\* what the driver can report to connectDB on attempt n
DriverFaults(n) == {<<[drv |-> "open", attempt |-> n]>>, <<[drv |-> "ping", attempt |-> n]>>}

\* connectDB: sqlx.Open, then PingContext; openErr and pingErr are the
\* driver's answers (Nil for success)
connectDB(openErr, pingErr) ==
    IF openErr # Nil THEN [db |-> "nil", err |-> Wrap(Layer("open failed"), openErr)]
    ELSE IF pingErr # Nil THEN [db |-> "nil", err |-> Wrap(Layer("ping failed"), pingErr)]
    ELSE [db |-> "db", err |-> Nil]

\* a loop that runs one time too many
LoopCond_OffByOne(n) == n <= MaxRetries

\* the condition of InitDB's for loop
LoopCond(n) == n < MaxRetries

\* line 111: the error of the exhausted loop wraps the last failure
ExhaustedError(e) == Wrap(Layer("not connected after MaxRetries attempts"), e)

InitDBInit ==
    /\ initPc = "loop"
    /\ i = 0
    /\ err = Nil
    /\ attempts = 0
    /\ sleeps = 0
    /\ poolSet = FALSE
    /\ initRet = [db |-> "none", err |-> Nil]

\* lines 96-108: one pass of the loop up to the sleep
InitAttempt ==
    /\ initPc = "loop"
    /\ LoopCond(i)
    /\ attempts' = attempts + 1
    /\ \E openErr \in {Nil} \cup {f \in DriverFaults(attempts + 1) : f[1].drv = "open"},
          pingErr \in {Nil} \cup {f \in DriverFaults(attempts + 1) : f[1].drv = "ping"} :
        LET r == connectDB(openErr, pingErr) IN
        /\ err' = r.err
        /\ IF r.err = Nil
           THEN /\ poolSet' = TRUE
                /\ initRet' = [db |-> r.db, err |-> Nil]
                /\ initPc' = "done"
           ELSE /\ initPc' = "sleep"
                /\ UNCHANGED <<poolSet, initRet>>
    /\ UNCHANGED <<i, sleeps>>
    /\ UNCHANGED <<uowVars, qVars>>

\* lines 109 and 96: time.Sleep(RetryInterval), then i++
InitSleep ==
    /\ initPc = "sleep"
    /\ sleeps' = sleeps + 1
    /\ i' = i + 1
    /\ initPc' = "loop"
    /\ UNCHANGED <<err, attempts, poolSet, initRet>>
    /\ UNCHANGED <<uowVars, qVars>>

\* line 111: the loop ran out
InitExhausted ==
    /\ initPc = "loop"
    /\ ~LoopCond(i)
    /\ initRet' = [db |-> "nil", err |-> ExhaustedError(err)]
    /\ initPc' = "done"
    /\ UNCHANGED <<i, err, attempts, sleeps, poolSet>>
    /\ UNCHANGED <<uowVars, qVars>>

InitDBNext ==
    \/ InitAttempt
    \/ InitSleep
    \/ InitExhausted

\* ----------------------------------------------------------- query helpers
\* ids a row of test_table can have
MaxKey == 2

Keys == 1..MaxKey

\* package errors: the sentinel values
ErrNotFound == "ErrNotFound"
ErrNotAuthorized == "ErrNotAuthorized"
ErrInternal == "ErrInternal"
ErrNotUpdated == "ErrNotUpdated"
ErrAlreadyExists == "ErrAlreadyExists"
ErrInvalidParams == "ErrInvalidParams"
ErrAccessDenied == "ErrAccessDenied"

Sentinels == {ErrNotFound, ErrNotAuthorized, ErrInternal, ErrNotUpdated,
              ErrAlreadyExists, ErrInvalidParams, ErrAccessDenied}

\* sql.ErrNoRows
SqlErrNoRows == "sql.ErrNoRows"

\* fmt.Errorf("%w: %v", sentinel, cause): only the sentinel is in the chain
Errorf(sentinel, cause) == Wrap("fmt", <<sentinel>>)

\* column values of a result row
IntVal(n) == [t |-> "int", v |-> n]
BoolVal(b) == [t |-> "bool", v |-> IF b THEN 1 ELSE 0]
TextVal == [t |-> "text", v |-> 2]

\* SQL templates over test_table with the named parameter :id bound to key
\*   select <col> from test_table where id = :id
Select(col, k) == [verb |-> "select", col |-> col, key |-> k]
\*   insert into test_table (id) values (:id) [on conflict do nothing] returning id
Insert(onConflict, k) == [verb |-> "insert", col |-> onConflict, key |-> k]
\*   update test_table set ... where id = :id [returning id]
Update(returning, k) == [verb |-> "update", col |-> returning, key |-> k]
\*   delete from test_table where id = :id
Delete(k) == [verb |-> "delete", col |-> "-", key |-> k]

\* fmt.Sprintf(`SELECT EXISTS(%s) AS ex`, query)
ExistsQuery(query) == [verb |-> "exists", inner |-> query]

\* the templates a caller reads with
ReadTemplates ==
    {Select(col, k) : col \in {"1", "0", "id", "name"}, k \in Keys}
    \cup {ExistsQuery(Select("1", k)) : k \in Keys}

\* the templates with a returning clause
ReturningTemplates ==
    {Insert(oc, k) : oc \in {"error", "nothing"}, k \in Keys}
    \cup {Update("returning", k) : k \in Keys}

\* the templates a caller writes with
WriteTemplates ==
    ReturningTemplates \cup {Update("plain", k) : k \in Keys} \cup {Delete(k) : k \in Keys}

Templates == ReadTemplates \cup WriteTemplates

\* what the driver can be made to fail at
Faults == {"none", "prepare", "exec", "rowsAffected"}

\* PostgreSQL running one statement on the table: the rows of the result
\* set, the command tag's row count, the error, the table afterwards
RECURSIVE Run(_, _)
Run(query, tbl) ==
    IF query.verb = "exists"
    THEN LET r == Run(query.inner, tbl) IN
         IF r.err # Nil THEN r
         ELSE [rows |-> <<BoolVal(Len(r.rows) > 0)>>, affected |-> 1,
               err |-> Nil, tbl |-> tbl]
    ELSE IF query.verb = "select"
    THEN LET v == IF query.col = "1" THEN IntVal(1)
                  ELSE IF query.col = "0" THEN IntVal(0)
                  ELSE IF query.col = "id" THEN IntVal(query.key)
                  ELSE TextVal
             rows == IF query.key \in tbl THEN <<v>> ELSE <<>>
         IN [rows |-> rows, affected |-> Len(rows), err |-> Nil, tbl |-> tbl]
    ELSE IF query.verb = "insert"
    THEN IF query.key \notin tbl
         THEN [rows |-> <<IntVal(query.key)>>, affected |-> 1, err |-> Nil,
               tbl |-> tbl \cup {query.key}]
         ELSE IF query.col = "nothing"
         THEN [rows |-> <<>>, affected |-> 0, err |-> Nil, tbl |-> tbl]
         ELSE [rows |-> <<>>, affected |-> 0, err |-> <<"pq: unique violation">>,
               tbl |-> tbl]
    ELSE IF query.verb = "update"
    THEN LET hit == query.key \in tbl IN
         [rows |-> IF hit /\ query.col = "returning" THEN <<IntVal(query.key)>> ELSE <<>>,
          affected |-> IF hit THEN 1 ELSE 0, err |-> Nil, tbl |-> tbl]
    ELSE LET hit == query.key \in tbl IN
         [rows |-> <<>>, affected |-> IF hit THEN 1 ELSE 0, err |-> Nil,
          tbl |-> tbl \ {query.key}]

\* Queryer.PrepareNamedContext
PrepareNamedContext(query, fault) ==
    IF fault = "prepare" THEN <<"pq: prepare failed">> ELSE Nil

\* database/sql's conversion of a column value into the destination
Scan(dest, v) ==
    IF dest = "bool"
    THEN IF v.t = "bool" \/ (v.t = "int" /\ v.v \in {0, 1})
         THEN [ok |-> TRUE, flag |-> v.v = 1, id |-> 0]
         ELSE [ok |-> FALSE, flag |-> FALSE, id |-> 0]
    ELSE IF dest = "int64"
    THEN IF v.t = "int"
         THEN [ok |-> TRUE, flag |-> FALSE, id |-> v.v]
         ELSE [ok |-> FALSE, flag |-> FALSE, id |-> 0]
    ELSE [ok |-> TRUE, flag |-> FALSE, id |-> IF v.t = "int" THEN v.v ELSE 0]

\* NamedStmt.SelectContext: every row into the slice dest points to
StmtSelectContext(query, tbl, fault, dest) ==
    LET r == Run(query, tbl) IN
    IF fault = "exec" THEN [ids |-> <<>>, err |-> <<"pq: connection lost">>, tbl |-> tbl]
    ELSE IF r.err # Nil THEN [ids |-> <<>>, err |-> r.err, tbl |-> r.tbl]
    ELSE IF \E k \in DOMAIN r.rows : ~Scan(dest, r.rows[k]).ok
    THEN [ids |-> <<>>, err |-> <<"sql: Scan error">>, tbl |-> r.tbl]
    ELSE [ids |-> [k \in DOMAIN r.rows |-> Scan(dest, r.rows[k]).id],
          err |-> Nil, tbl |-> r.tbl]

\* NamedStmt.GetContext: the first row into dest, sql.ErrNoRows without one
StmtGetContext(query, tbl, fault, dest) ==
    LET r == Run(query, tbl) IN
    IF fault = "exec"
    THEN [flag |-> FALSE, id |-> 0, err |-> <<"pq: connection lost">>, tbl |-> tbl]
    ELSE IF r.err # Nil THEN [flag |-> FALSE, id |-> 0, err |-> r.err, tbl |-> r.tbl]
    ELSE IF r.rows = <<>>
    THEN [flag |-> FALSE, id |-> 0, err |-> <<SqlErrNoRows>>, tbl |-> r.tbl]
    ELSE IF ~Scan(dest, r.rows[1]).ok
    THEN [flag |-> FALSE, id |-> 0, err |-> <<"sql: Scan error">>, tbl |-> r.tbl]
    ELSE [flag |-> Scan(dest, r.rows[1]).flag, id |-> Scan(dest, r.rows[1]).id,
          err |-> Nil, tbl |-> r.tbl]

\* NamedStmt.ExecContext followed by Result.RowsAffected
StmtExecContext(query, tbl, fault) ==
    LET r == Run(query, tbl) IN
    IF fault = "exec"
    THEN [affected |-> 0, err |-> <<"pq: connection lost">>, raErr |-> Nil, tbl |-> tbl]
    ELSE IF r.err # Nil
    THEN [affected |-> 0, err |-> r.err, raErr |-> Nil, tbl |-> r.tbl]
    ELSE [affected |-> r.affected, err |-> Nil,
          raErr |-> IF fault = "rowsAffected" THEN <<"RowsAffected not supported">> ELSE Nil,
          tbl |-> r.tbl]

\* what a helper gives back: the ids and the flag it returns, its error,
\* whether it panicked, the table afterwards
Out(ids, flag, e, tbl) == [ids |-> ids, flag |-> flag, err |-> e, panic |-> FALSE, tbl |-> tbl]
PanicOut(tbl) == [ids |-> <<>>, flag |-> FALSE, err |-> Nil, panic |-> TRUE, tbl |-> tbl]

\* func QueryMultiple
QueryMultiple(query, tbl, fault, dest) ==
    LET prepErr == PrepareNamedContext(query, fault)
        r == StmtSelectContext(query, tbl, fault, dest)
    IN
    IF prepErr # Nil THEN Out(<<>>, FALSE, Wrap("prepare", prepErr), tbl)
    ELSE IF r.err # Nil
    THEN IF Is(r.err, SqlErrNoRows) THEN Out(<<>>, FALSE, <<ErrNotFound>>, r.tbl)
         ELSE Out(<<>>, FALSE, Errorf(ErrInternal, r.err), r.tbl)
    ELSE Out(r.ids, FALSE, Nil, r.tbl)

\* func QuerySingle
QuerySingle(query, tbl, fault, dest) ==
    LET prepErr == PrepareNamedContext(query, fault)
        r == StmtGetContext(query, tbl, fault, dest)
    IN
    IF prepErr # Nil THEN Out(<<>>, FALSE, Wrap("prepare", prepErr), tbl)
    ELSE IF r.err # Nil
    THEN IF Is(r.err, SqlErrNoRows) THEN Out(<<>>, FALSE, <<ErrNotFound>>, r.tbl)
         ELSE Out(<<>>, FALSE, Errorf(ErrInternal, r.err), r.tbl)
    ELSE Out(<<r.id>>, r.flag, Nil, r.tbl)

\* func InsertRecord
InsertRecord(query, tbl, fault) ==
    LET r == QueryMultiple(query, tbl, fault, "int64") IN
    IF r.err # Nil THEN Out(<<>>, FALSE, r.err, r.tbl)
    ELSE IF Len(r.ids) > 0 THEN Out(<<r.ids[1]>>, FALSE, Nil, r.tbl)
    ELSE Out(<<>>, FALSE, Errorf(ErrInternal, Nil), r.tbl)

\* func UpdateRecord
UpdateRecord(query, tbl, fault) ==
    LET prepErr == PrepareNamedContext(query, fault)
        r == StmtExecContext(query, tbl, fault)
    IN
    IF prepErr # Nil THEN Out(<<>>, FALSE, Wrap("prepare", prepErr), tbl)
    ELSE IF r.err # Nil THEN Out(<<>>, FALSE, Errorf(ErrInternal, r.err), r.tbl)
    ELSE IF r.raErr # Nil THEN Out(<<>>, FALSE, Errorf(ErrInternal, r.raErr), r.tbl)
    ELSE IF r.affected < 1 THEN Out(<<>>, FALSE, Errorf(ErrInternal, Nil), r.tbl)
    ELSE Out(<<>>, FALSE, Nil, r.tbl)

\* func UpdateRecordWithResultId
UpdateRecordWithResultId(query, tbl, fault) == InsertRecord(query, tbl, fault)

\* func UpdateRecordWithResultListId
UpdateRecordWithResultListId(query, tbl, fault) ==
    LET r == QueryMultiple(query, tbl, fault, "OnlyId") IN
    IF r.err # Nil THEN Out(<<>>, FALSE, r.err, r.tbl)
    ELSE IF Len(r.ids) > 0 THEN Out(r.ids, FALSE, Nil, r.tbl)
    ELSE Out(<<>>, FALSE, <<ErrNotUpdated>>, r.tbl)

\* func DeleteRecord
DeleteRecord(query, tbl, fault) ==
    LET prepErr == PrepareNamedContext(query, fault)
        r == StmtExecContext(query, tbl, fault)
    IN
    IF prepErr # Nil THEN Out(<<>>, FALSE, Wrap("prepare", prepErr), tbl)
    ELSE IF r.err # Nil THEN Out(<<>>, FALSE, Errorf(ErrInternal, r.err), r.tbl)
    ELSE IF r.raErr # Nil THEN Out(<<>>, FALSE, Errorf(ErrInternal, r.raErr), r.tbl)
    ELSE IF r.affected < 1 THEN Out(<<>>, FALSE, <<ErrNotFound>>, r.tbl)
    ELSE Out(<<>>, FALSE, Nil, r.tbl)

\* func CheckExistence
CheckExistence(query, tbl, fault) ==
    LET r == QuerySingle(query, tbl, fault, "bool") IN
    IF r.err # Nil
    THEN IF Is(r.err, SqlErrNoRows) THEN Out(<<>>, FALSE, Nil, r.tbl)
         ELSE Out(<<>>, FALSE, Errorf(ErrInternal, r.err), r.tbl)
    ELSE Out(<<>>, r.flag, Nil, r.tbl)

\* a CheckExistenceWithError that reports every record as existing
CheckExistenceWithError_Always(query, tbl, fault) ==
    LET r == CheckExistence(ExistsQuery(query), tbl, fault) IN
    IF r.err # Nil THEN Out(<<>>, FALSE, r.err, r.tbl)
    ELSE Out(<<>>, FALSE, <<ErrAlreadyExists>>, r.tbl)

\* func CheckExistenceWithError
CheckExistenceWithError(query, tbl, fault) ==
    LET existsQuery == ExistsQuery(query)
        r == CheckExistence(existsQuery, tbl, fault)
    IN
    IF r.err # Nil THEN Out(<<>>, FALSE, r.err, r.tbl)
    ELSE IF r.flag THEN Out(<<>>, FALSE, <<ErrAlreadyExists>>, r.tbl)
    ELSE Out(<<>>, FALSE, Nil, r.tbl)

\* func AddRecord
AddRecord(query, tbl, fault) ==
    LET r == QueryMultiple(query, tbl, fault, "OnlyId") IN
    IF r.err # Nil THEN Out(<<>>, FALSE, Wrap("add", r.err), r.tbl)
    ELSE IF Len(r.ids) = 0 THEN PanicOut(r.tbl)
    ELSE Out(<<r.ids[1]>>, FALSE, Nil, r.tbl)

\* func ExecuteNonQuery
ExecuteNonQuery(query, tbl, fault) ==
    LET prepErr == PrepareNamedContext(query, fault)
        r == StmtExecContext(query, tbl, fault)
    IN
    IF prepErr # Nil THEN Out(<<>>, FALSE, Wrap("prepare", prepErr), tbl)
    ELSE IF r.err # Nil THEN Out(<<>>, FALSE, Errorf(ErrInternal, r.err), r.tbl)
    ELSE IF r.raErr # Nil THEN Out(<<>>, FALSE, Errorf(ErrInternal, r.raErr), r.tbl)
    ELSE IF r.affected < 1 THEN Out(<<>>, FALSE, Errorf(ErrNotFound, Nil), r.tbl)
    ELSE Out(<<>>, FALSE, Nil, r.tbl)

\* the migration seeds test_table: here the row with id 1
SeedRows == {1}

NoCall == [query |-> Delete(1), fault |-> "none", tbl |-> {}]

QueryInit ==
    /\ table = SeedRows
    /\ qOp = "none"
    /\ qIn = NoCall
    /\ qOut = Out(<<>>, FALSE, Nil, {})

\* one call of a helper: its result is kept, the table is what it left
Call(op, query, fault, r) ==
    /\ qOp = "none"
    /\ qOp' = op
    /\ qIn' = [query |-> query, fault |-> fault, tbl |-> table]
    /\ qOut' = r
    /\ table' = r.tbl
    /\ UNCHANGED <<uowVars, initVars>>

CallQueryMultiple ==
    \E query \in Templates, fault \in Faults :
        Call("QueryMultiple", query, fault, QueryMultiple(query, table, fault, "any"))

CallQuerySingle ==
    \E query \in Templates, fault \in Faults :
        Call("QuerySingle", query, fault, QuerySingle(query, table, fault, "any"))

CallInsertRecord ==
    \E query \in ReturningTemplates, fault \in Faults :
        Call("InsertRecord", query, fault, InsertRecord(query, table, fault))

CallAddRecord ==
    \E query \in ReturningTemplates, fault \in Faults :
        Call("AddRecord", query, fault, AddRecord(query, table, fault))

CallUpdateRecord ==
    \E query \in WriteTemplates, fault \in Faults :
        Call("UpdateRecord", query, fault, UpdateRecord(query, table, fault))

CallUpdateRecordWithResultId ==
    \E query \in ReturningTemplates, fault \in Faults :
        Call("UpdateRecordWithResultId", query, fault,
             UpdateRecordWithResultId(query, table, fault))

CallUpdateRecordWithResultListId ==
    \E query \in ReturningTemplates, fault \in Faults :
        Call("UpdateRecordWithResultListId", query, fault,
             UpdateRecordWithResultListId(query, table, fault))

CallDeleteRecord ==
    \E query \in WriteTemplates, fault \in Faults :
        Call("DeleteRecord", query, fault, DeleteRecord(query, table, fault))

CallExecuteNonQuery ==
    \E query \in WriteTemplates, fault \in Faults :
        Call("ExecuteNonQuery", query, fault, ExecuteNonQuery(query, table, fault))

CallCheckExistence ==
    \E query \in ReadTemplates, fault \in Faults :
        Call("CheckExistence", query, fault, CheckExistence(query, table, fault))

CallCheckExistenceWithError ==
    \E query \in ReadTemplates, fault \in Faults :
        Call("CheckExistenceWithError", query, fault,
             CheckExistenceWithError(query, table, fault))

\* the caller has looked at the result and goes on to its next call
Returned ==
    /\ qOp # "none"
    /\ qOp' = "none"
    /\ qIn' = NoCall
    /\ qOut' = Out(<<>>, FALSE, Nil, {})
    /\ UNCHANGED <<table, uowVars, initVars>>

QueryNext ==
    \/ Returned
    \/ CallQueryMultiple
    \/ CallQuerySingle
    \/ CallInsertRecord
    \/ CallAddRecord
    \/ CallUpdateRecord
    \/ CallUpdateRecordWithResultId
    \/ CallUpdateRecordWithResultListId
    \/ CallDeleteRecord
    \/ CallExecuteNonQuery
    \/ CallCheckExistence
    \/ CallCheckExistenceWithError

\* ------------------------------------------------------------------ claims
InDo(c) == pc[c] \in {"fn", "deferred", "repanic"}
Seen(t) == {w \in Callers : <<t, w>> \in visible}

\* C1: a Do whose fn returned an error has rolled its transaction back, gives
\* fn's error to its caller, and nothing run through its transaction is
\* visible in the database
C1_ErrorRollsBack ==
    \A c \in Callers :
        (pc[c] = "returned" /\ fnRes[c].kind = "err") =>
            /\ ret[c] = fnRes[c]
            /\ txState[tx[c]] = "rolledback"
            /\ Seen(tx[c]) = {}

\* a Do returned after its fn ran a statement through the transaction and
\* then returned an error
C1_Witness ==
    \E c \in Callers :
        /\ pc[c] = "returned"
        /\ fnRes[c].kind = "err"
        /\ c \in txLog[tx[c]]

\* C2: a Do that returns nil has committed, after fn returned nil, and all
\* that was run through its transaction is visible; nothing run through the
\* transaction of a Do is visible while that Do has not returned; a commit
\* that fails is Do's error
C2_CommitOnSuccess ==
    \A c \in Callers :
        /\ (pc[c] = "returned" /\ ret[c].kind = "nil") =>
                /\ fnRes[c].kind = "nil"
                /\ txState[tx[c]] = "committed"
                /\ Seen(tx[c]) = txLog[tx[c]]
        /\ InDo(c) => Seen(tx[c]) = {}
        /\ (pc[c] = "returned" /\ fnRes[c].kind = "nil" /\ txState[tx[c]] # "committed") =>
                ret[c] = RetErr("commitErr")

\* a Do returned nil after its fn ran a statement through the transaction
C2_Witness ==
    \E c \in Callers :
        /\ pc[c] = "returned"
        /\ ret[c].kind = "nil"
        /\ c \in txLog[tx[c]]

\* C3: when fn panics, the rollback is done before the panic goes on, the
\* panic that leaves Do carries fn's value, and the transaction is not
\* committed
C3_PanicRollsBackThenRepanics ==
    \A c \in Callers :
        /\ pc[c] = "repanic" => txState[tx[c]] = "rolledback"
        /\ (pc[c] = "returned" /\ fnRes[c].kind = "panic") =>
                /\ ret[c] = fnRes[c]
                /\ txState[tx[c]] = "rolledback"
                /\ Seen(tx[c]) = {}

\* a Do left by panic after its fn ran a statement through the transaction
C3_Witness ==
    \E c \in Callers :
        /\ pc[c] = "returned"
        /\ fnRes[c].kind = "panic"
        /\ ret[c].kind = "panic"
        /\ c \in txLog[tx[c]]

\* C4: GetQueryer gives the transaction's Queryer exactly when a transaction
\* of the Unit of Work is active, and then that transaction's; the pool's
\* Queryer otherwise
C4_GetQueryerIffActive ==
    LET q == GetQueryer(uowTx) IN
    /\ q.kind = "tx" <=> ActiveTxs # {}
    /\ q.kind = "tx" => txState[q.id] = "active"

\* C5: the Queryer fn gets from GetQueryer is bound to the transaction its own
\* Do began, and the Unit of Work has at most one active transaction
C5_OwnTransaction ==
    /\ Cardinality(ActiveTxs) <= 1
    /\ \A c \in Callers :
        (pc[c] = "fn" /\ lastQ[c].kind # "none") => lastQ[c] = TxQueryer(tx[c])

\* C8: InitDB never makes more than MaxRetries attempts and sleeps after each
\* failed one; when it returns the connection the attempt before was the
\* first to succeed and the pool is configured; when it returns an error
\* all MaxRetries attempts failed and the error wraps the failure of the
\* last of them
C8_ConnectRetry ==
    /\ attempts <= MaxRetries
    /\ initPc = "loop" => (attempts = i /\ sleeps = i)
    /\ (initPc = "done" /\ initRet.err = Nil) =>
            /\ initRet.db = "db"
            /\ poolSet
            /\ attempts = i + 1
            /\ sleeps = attempts - 1
    /\ (initPc = "done" /\ initRet.err # Nil) =>
            /\ initRet.db = "nil"
            /\ attempts = MaxRetries
            /\ sleeps = MaxRetries
            /\ \E f \in DriverFaults(MaxRetries) : Is(initRet.err, f[1])

\* InitDB has returned the error of the exhausted loop
C8_Witness == initPc = "done" /\ initRet.err # Nil /\ attempts = MaxRetries

WriteOps == {"InsertRecord", "AddRecord", "UpdateRecord", "UpdateRecordWithResultId",
             "UpdateRecordWithResultListId", "DeleteRecord", "ExecuteNonQuery"}
ByRowCount == {"UpdateRecord", "DeleteRecord", "ExecuteNonQuery"}

\* the driver's answer to the call kept in qIn, and whether the driver
\* failed in it: at prepare, at execution, or at RowsAffected where the
\* helper asks for it
Driven == Run(qIn.query, qIn.tbl)
DriverFailed ==
    \/ qIn.fault \in {"prepare", "exec"}
    \/ qIn.fault = "rowsAffected" /\ qOp \in ByRowCount
    \/ Driven.err # Nil

C7_NoRowsIsFalse ==
    (qOp = "CheckExistence" /\ qIn.fault = "none" /\ Driven.err = Nil /\ Driven.rows = <<>>) =>
        (qOut.flag = FALSE /\ qOut.err = Nil)

\* C9: every error a helper returns is or wraps a sentinel, and a driver
\* failure is never a success
C9_ErrorsClassified ==
    qOp # "none" =>
        /\ qOut.err # Nil => \E sentinel \in Sentinels : Is(qOut.err, sentinel)
        /\ DriverFailed => (qOut.err # Nil /\ ~qOut.panic)

\* C10: a write helper whose statement ran without error but changed no row,
\* or returned no id, gives an error and does not panic
C10_WritesVerified ==
    (/\ qOp \in WriteOps
     /\ ~DriverFailed
     /\ IF qOp \in ByRowCount THEN Driven.affected = 0 ELSE Driven.rows = <<>>) =>
        (qOut.err # Nil /\ ~qOut.panic)

\* ----------------------------------------------------------- specifications
Init == UoWInit /\ InitDBInit /\ QueryInit

SpecUoW == Init /\ [][UoWNext]_vars

SpecInitDB == Init /\ [][InitDBNext]_vars

SpecQuery == Init /\ [][QueryNext]_vars

====
